---- MODULE Spec2Model ----
(***************************************************************************)
(* confy: Parse(appName) merges a KEY=VALUE config file into the flag      *)
(* registry, regenerates the canonical file, writes it when it differs,    *)
(* then runs flag.Parse().  Two revisions of the package are in the        *)
(* repository: confy.go (ioutil.ReadFile / ioutil.WriteFile) and the       *)
(* earlier one (os.OpenFile, Seek, Truncate, WriteTo); impl selects one.   *)
(*                                                                         *)
(* Text is a sequence of runes, each a one-rune string.  "n~" stands for   *)
(* one two-byte rune (U+00F1).  Comment texts (header, usage, deprecated   *)
(* banner) are shortened; keys, values and separators are exact.           *)
(***************************************************************************)
EXTENDS Naturals, Sequences, FiniteSets

VARIABLES impl, reg, env, file, vals, parsed, pc, calls, runs, call,
          oldConf, lines, pos, obsKeys, warning, newConf, ioLog, injected,
          result, args, finals, genClean, total, fileVals

vars == <<impl, reg, env, file, vals, parsed, pc, calls, runs, call,
          oldConf, lines, pos, obsKeys, warning, newConf, ioLog, injected,
          result, args, finals, genClean, total, fileVals>>

\* ---------------------------------------------------------------- bounds
\* lines of the config file a process starts from
MaxLines == 2
\* Parse calls in all, over the processes started one after the other
MaxCalls == 3

\* ------------------------------------------------------------ text helpers
NL == "\n"
AppName == <<"A">>

\* unicode.IsSpace on the runes the model uses (strings.TrimSpace)
White == {" ", "\t", "\r", NL}

RECURSIVE TrimLeft(_)
TrimLeft(s) ==
  IF s # <<>> /\ Head(s) \in White THEN TrimLeft(Tail(s)) ELSE s

RECURSIVE TrimRight(_)
TrimRight(s) ==
  IF s # <<>> /\ s[Len(s)] \in White
  THEN TrimRight(SubSeq(s, 1, Len(s) - 1)) ELSE s

\* strings.TrimSpace
TrimSpace(s) == TrimRight(TrimLeft(s))

\* strings.HasPrefix
HasPrefix(s, p) == Len(s) >= Len(p) /\ SubSeq(s, 1, Len(p)) = p

\* the first position from i on whose rune is in chars; 0 when there is none
RECURSIVE IndexFrom(_, _, _)
IndexFrom(s, chars, i) ==
  IF i > Len(s) THEN 0
  ELSE IF s[i] \in chars THEN i ELSE IndexFrom(s, chars, i + 1)

\* strings.IndexAny with positions counted from 1; 0 is Go's -1
IndexAnyOf(s, chars) == IndexFrom(s, chars, 1)

IndexAnyEqualsOnly(line) == IndexAnyOf(line, {"="})

\* strings.IndexAny(line, "=:")
IndexAny(line) == IndexAnyOf(line, {"=", ":"})

\* bufio.ScanLines drops one trailing carriage return
DropCR(s) ==
  IF s # <<>> /\ s[Len(s)] = "\r" THEN SubSeq(s, 1, Len(s) - 1) ELSE s

\* the tokens of data from position start on: each ends before a newline,
\* the last one at the end of the data if it is not empty
RECURSIVE ScanFrom(_, _)
ScanFrom(data, start) ==
  IF start > Len(data) THEN <<>>
  ELSE LET i == IndexFrom(data, {NL}, start)
       IN  IF i = 0 THEN <<DropCR(SubSeq(data, start, Len(data)))>>
           ELSE <<DropCR(SubSeq(data, start, i - 1))>> \o ScanFrom(data, i + 1)

\* the tokens bufio.Scanner yields for the bytes of a file
ScanLines(data) == ScanFrom(data, 1)

RECURSIVE Concat(_)
Concat(ss) == IF ss = <<>> THEN <<>> ELSE Head(ss) \o Concat(Tail(ss))

\* utf8.RuneCountInString
RuneCount(s) == Len(s)

\* len(s): the bytes of the UTF-8 encoding
RECURSIVE ByteLen(_)
ByteLen(s) ==
  IF s = <<>> THEN 0
  ELSE (IF Head(s) = "n~" THEN 2 ELSE 1) + ByteLen(Tail(s))

\* ------------------------------------------------- option values (package flag)
DigitVal ==
  [c \in {"0", "1", "2", "3", "4", "5", "6", "7", "8", "9"} |->
     CASE c = "0" -> 0 [] c = "1" -> 1 [] c = "2" -> 2 [] c = "3" -> 3
       [] c = "4" -> 4 [] c = "5" -> 5 [] c = "6" -> 6 [] c = "7" -> 7
       [] c = "8" -> 8 [] c = "9" -> 9]

DigitChar == <<"0", "1", "2", "3", "4", "5", "6", "7", "8", "9">>

RECURSIVE DigitsValue(_, _)
DigitsValue(s, base) ==
  IF s = <<>> THEN 0
  ELSE DigitsValue(SubSeq(s, 1, Len(s) - 1), base) * base + DigitVal[s[Len(s)]]

\* strconv.ParseInt(s, 0, 64) on unsigned decimal and 0-prefixed octal
\* text; every other text of the model's alphabet is rejected
ParseInt(s) ==
  IF s = <<>> \/ \E i \in 1..Len(s) : s[i] \notin DOMAIN DigitVal
  THEN [ok |-> FALSE, val |-> 0]
  ELSE IF Len(s) > 1 /\ s[1] = "0"
       THEN IF \E i \in 2..Len(s) : DigitVal[s[i]] > 7
            THEN [ok |-> FALSE, val |-> 0]
            ELSE [ok |-> TRUE, val |-> DigitsValue(Tail(s), 8)]
       ELSE [ok |-> TRUE, val |-> DigitsValue(s, 10)]

\* strconv.ParseBool
ParseBool(s) ==
  IF s \in {<<"1">>, <<"t">>, <<"T">>, <<"T", "R", "U", "E">>,
            <<"t", "r", "u", "e">>, <<"T", "r", "u", "e">>}
  THEN [ok |-> TRUE, val |-> TRUE]
  ELSE IF s \in {<<"0">>, <<"f">>, <<"F">>, <<"F", "A", "L", "S", "E">>,
                 <<"f", "a", "l", "s", "e">>, <<"F", "a", "l", "s", "e">>}
       THEN [ok |-> TRUE, val |-> FALSE]
       ELSE [ok |-> FALSE, val |-> FALSE]

\* strconv.Itoa
RECURSIVE FormatInt(_)
FormatInt(n) ==
  IF n < 10 THEN <<DigitChar[n + 1]>>
  ELSE FormatInt(n \div 10) \o <<DigitChar[(n % 10) + 1]>>

\* flag.Value.Set of the three value kinds
ValueSet(type, text) ==
  CASE type = "int" -> ParseInt(text)
    [] type = "bool" -> ParseBool(text)
    [] type = "string" -> [ok |-> TRUE, val |-> text]

\* flag.Value.String
ValueString(type, v) ==
  CASE type = "int" -> FormatInt(v)
    [] type = "bool" ->
         (IF v THEN <<"t", "r", "u", "e">> ELSE <<"f", "a", "l", "s", "e">>)
    [] type = "string" -> v

\* ------------------------------------------------------------ the registry
\* The flags the program registered before calling Parse, in the order
\* flag.VisitAll visits them (sorted by name, bytewise).  abc and n~n~
\* share one int, s and t one string, v and vb one bool.  The registry
\* "padded" differs in the string's default, which starts with a space.
Flags ==
  << [name |-> <<"a", "b", "c">>, var |-> "P", usage |-> <<"u">>],
     [name |-> <<"s">>,           var |-> "S", usage |-> <<"u">>],
     [name |-> <<"t">>,           var |-> "S", usage |-> <<"u">>],
     [name |-> <<"v">>,           var |-> "V", usage |-> <<"u">>],
     [name |-> <<"v", "b">>,      var |-> "V", usage |-> <<"u">>],
     [name |-> <<"n~", "n~">>,    var |-> "P", usage |-> <<"u">>] >>

Registries == {"plain", "padded"}

VarType == [P |-> "int", S |-> "string", V |-> "bool"]

\* the values the variables hold when the process starts
Defaults(r) ==
  [P |-> 0,
   S |-> IF r = "padded" THEN <<" ", "x">> ELSE <<"x">>,
   V |-> FALSE]

\* flag.Flag.DefValue: the default's String() at registration
DefValue(r, f) == ValueString(VarType[f.var], Defaults(r)[f.var])

Names == {Flags[i].name : i \in 1..Len(Flags)}

\* flag.Lookup
Lookup(name) == CHOOSE i \in 1..Len(Flags) : Flags[i].name = name

\* flag.Set(key, val): fails on an unknown name or a rejected value
FlagSet(vs, key, val) ==
  IF key \notin Names THEN [ok |-> FALSE, vals |-> vs]
  ELSE LET f == Flags[Lookup(key)]
           r == ValueSet(VarType[f.var], val)
       IN  IF r.ok THEN [ok |-> TRUE, vals |-> [vs EXCEPT ![f.var] = r.val]]
           ELSE [ok |-> FALSE, vals |-> vs]

\* ------------------------------------------------------------- parseConfig
EmptyMap == [k \in {} |-> <<>>]

MapPut(m, k, v) == [x \in DOMAIN m \cup {k} |-> IF x = k THEN v ELSE m[x]]

\* the first value recorded for a key is kept
RecordObsoleteKeepFirst(obs, key, val) ==
  IF key \in DOMAIN obs THEN obs ELSE MapPut(obs, key, val)

\* obsKeys[key] = val
RecordObsolete(obs, key, val) == MapPut(obs, key, val)

\* the loop body without the test for a leading #
ApplyLineNoComment(st, raw) ==
  LET line == TrimSpace(raw)
      i    == IndexAny(line)
  IN  IF line = <<>> \/ i = 0 THEN st
      ELSE LET key == TrimSpace(SubSeq(line, 1, i - 1))
               val == TrimSpace(SubSeq(line, i + 1, Len(line)))
               r   == FlagSet(st.vals, key, val)
           IN  IF r.ok THEN [vals |-> r.vals, obs |-> st.obs]
               ELSE [vals |-> st.vals,
                     obs |-> RecordObsolete(st.obs, key, val)]

\* one iteration of the scanner loop on the state st = [vals, obs]
ApplyLine(st, raw) ==
  LET line == TrimSpace(raw)
  IN  IF HasPrefix(line, <<"#">>) \/ line = <<>> THEN st
      ELSE LET i == IndexAny(line)
           IN  IF i = 0 THEN st
               ELSE LET key == TrimSpace(SubSeq(line, 1, i - 1))
                        val == TrimSpace(SubSeq(line, i + 1, Len(line)))
                        r   == FlagSet(st.vals, key, val)
                    IN  IF r.ok THEN [vals |-> r.vals, obs |-> st.obs]
                        ELSE [vals |-> st.vals,
                              obs |-> RecordObsolete(st.obs, key, val)]

\* the loop over the first n lines
RECURSIVE ParseLines(_, _, _)
ParseLines(st, ls, n) ==
  IF n = 0 THEN st ELSE ApplyLine(ParseLines(st, ls, n - 1), ls[n])

\* -------------------------------------------------------------- saveConfig
NameLongerBytes(a, b) == ByteLen(a) > ByteLen(b)

\* utf8.RuneCountInString(f.Name) > utf8.RuneCountInString(cur.Name)
NameLonger(a, b) == RuneCount(a) > RuneCount(b)

\* deduped after the first VisitAll has visited n flags
RECURSIVE DedupUpTo(_)
DedupUpTo(n) ==
  IF n = 0 THEN [v \in {} |-> Flags[1]]
  ELSE LET d == DedupUpTo(n - 1)
           f == Flags[n]
       IN  IF f.var \notin DOMAIN d \/ NameLonger(f.name, d[f.var].name)
           THEN MapPut(d, f.var, f)
           ELSE d

Deduped == DedupUpTo(Len(Flags))

\* "\n# %s (default %v)\n" and "%s=%v\n"
Block(r, f, vs) ==
  <<NL, "#", " ">> \o f.usage
    \o <<" ", "(", "d", "e", "f", "a", "u", "l", "t", " ">>
    \o DefValue(r, f) \o <<")", NL>>
    \o f.name \o <<"=">> \o ValueString(VarType[f.var], vs[f.var]) \o <<NL>>

\* the second VisitAll
Blocks(r, vs) ==
  Concat([i \in 1..Len(Flags) |->
            IF Deduped[Flags[i].var].name = Flags[i].name
            THEN Block(r, Flags[i], vs) ELSE <<>>])

\* Fprintln of the banner of the deprecated section (text shortened)
DeprecatedBanner ==
  <<NL, NL, "#", " ", "d", "e", "p", "r", "e", "c", "a", "t", "e", "d", "!", NL>>

\* the orders in which range may visit the keys of a map
Orders(S) ==
  {o \in [1..Cardinality(S) -> S] :
     \A i, j \in 1..Cardinality(S) : i # j => o[i] # o[j]}

ObsoleteSection(obs, order) ==
  IF DOMAIN obs = {} THEN <<>>
  ELSE DeprecatedBanner
       \o Concat([i \in 1..Len(order) |->
                    order[i] \o <<"=">> \o obs[order[i]] \o <<NL>>])

SaveConfig(r, vs, obs, order) == Blocks(r, vs) \o ObsoleteSection(obs, order)

\* configHeader with appName filled in; each comment line is shortened to
\* its first word.  confy.go's header has one line more.
ConfigHeader(im) ==
  <<"#", " ">> \o AppName \o <<NL, "#", " ", NL>>
    \o (IF im = "ReadFile" THEN <<"#", " ", "T", NL>> ELSE <<>>)
    \o <<"#", " ", "E", NL, "#", " ", "K", NL, "#", " ", "V", NL>>

\* --------------------------------------------------------- getConfigPath
HomePath == <<"~", "/", ".", "a", "i", "n", "f", "0">>
EnvPaths == {<<>>, <<"/", "e">>}

\* the path when the lookup succeeds: $AINF0, or the dot-file under home
ConfigPath(e) == IF e # <<>> THEN e ELSE HomePath

\* ------------------------------------------------------------------ inputs
\* lines a user may have left in the config file
CandLines ==
  << <<" ", "v", " ", "=", " ", "1", " ">>,
     <<"v", "=", "x">>,
     <<"v", "b", "=", "0">>,
     <<"a", "b", "c", ":", "0", "7">>,
     <<"o", "=", "4">>,
     <<"o", "=", "5">>,
     <<"#", "c", "=", "1">>,
     <<"j", "k">> >>

SeqsUpTo(S, n) == UNION {[1..k -> S] : k \in 0..n}

\* the selections of at most n candidate lines, in the candidates' order
Selections(n) ==
  {[i \in 1..Len(ix) |-> CandLines[ix[i]]] :
     ix \in {jx \in SeqsUpTo(1..Len(CandLines), n) :
               \A i \in 1..(Len(jx) - 1) : jx[i] < jx[i + 1]}}

FileOf(ls) == Concat([i \in 1..Len(ls) |-> ls[i] \o <<NL>>])

NoFile == [exists |-> FALSE, data |-> <<>>]

\* no file, or a file of at most MaxLines of the candidate lines
InitFiles ==
  {NoFile} \cup {[exists |-> TRUE, data |-> FileOf(ls)] :
                   ls \in Selections(MaxLines)}

\* command lines, each the -name=value arguments flag.Parse reads in order
ArgV1 == [name |-> <<"v">>, val |-> <<"1">>]
ArgVb0 == [name |-> <<"v", "b">>, val |-> <<"0">>]
ArgZ1 == [name |-> <<"z">>, val |-> <<"1">>]

ArgVectors == { <<>>, <<ArgVb0>>, <<ArgV1, ArgVb0>>, <<ArgV1, ArgZ1>> }

NoCall == [file |-> NoFile, vals |-> Defaults("plain"), parsed |-> FALSE,
           clean |-> FALSE, prev |-> "none", active |-> FALSE]

Init ==
  /\ impl \in {"ReadFile", "OpenFile"}
  /\ reg \in Registries
  /\ env \in EnvPaths
  /\ file \in InitFiles
  /\ vals = Defaults(reg)
  /\ parsed = FALSE
  /\ pc = "idle"
  /\ calls = 0
  /\ runs = 1
  /\ call = NoCall
  /\ oldConf = <<>>
  /\ lines = <<>>
  /\ pos = 0
  /\ obsKeys = EmptyMap
  /\ warning = <<>>
  /\ newConf = <<>>
  /\ ioLog = <<>>
  /\ injected = "none"
  /\ result = "none"
  /\ args = <<>>
  /\ finals = 0
  /\ genClean = FALSE
  /\ total = 0
  /\ fileVals = Defaults(reg)

\* ------------------------------------------------------------------- Parse
\* if flag.Parsed() { return error }
GuardMissing == FALSE

Guard == parsed

\* the environment's failures the first half of Parse can meet
EnterFaults(im, e) ==
  {"none"} \cup (IF e = <<>> THEN {"path"} ELSE {})
           \cup (IF im = "ReadFile" THEN {"read"} ELSE {"open"})

\* a missing file is an error like any other
OpenOutcomeStrict(im, f, fault) ==
  IF fault # "none" \/ ~f.exists
  THEN [err |-> IF fault # "none" THEN fault
                ELSE IF im = "ReadFile" THEN "read" ELSE "open",
        file |-> f, old |-> <<>>, log |-> <<>>]
  ELSE [err |-> "none", file |-> f, old |-> f.data, log |-> <<"read">>]

\* getConfigPath, then ioutil.ReadFile with os.IsNotExist tolerated
\* (confy.go) or openOrCreate(O_RDWR|O_CREATE) and the read through the
\* TeeReader (earlier revision)
OpenOutcome(im, f, fault) ==
  IF fault # "none"
  THEN [err |-> fault, file |-> f, old |-> <<>>, log |-> <<>>]
  ELSE IF im = "ReadFile"
       THEN [err |-> "none", file |-> f,
             old |-> IF f.exists THEN f.data ELSE <<>>,
             log |-> <<"read">>]
       ELSE [err |-> "none",
             file |-> [exists |-> TRUE, data |-> f.data],
             old |-> f.data,
             log |-> (IF f.exists THEN <<>> ELSE <<"create">>)
                       \o <<"open-rw", "read">>]

ParseEnter ==
  /\ pc = "idle"
  /\ total < MaxCalls
  /\ total' = total + 1
  /\ calls' = calls + 1
  /\ call' = [file |-> file, vals |-> vals, parsed |-> parsed,
              clean |-> genClean, prev |-> result, active |-> TRUE]
  /\ obsKeys' = EmptyMap
  /\ warning' = <<>>
  /\ newConf' = <<>>
  /\ IF Guard
     THEN /\ result' = "already"
          /\ pc' = "idle"
          /\ injected' = "none"
          /\ oldConf' = <<>>
          /\ lines' = <<>>
          /\ pos' = 0
          /\ ioLog' = <<>>
          /\ file' = file
     ELSE \E fault \in EnterFaults(impl, env) :
            LET o == OpenOutcome(impl, file, fault)
            IN  /\ injected' = fault
                /\ file' = o.file
                /\ oldConf' = o.old
                /\ lines' = ScanLines(o.old)
                /\ ioLog' = o.log
                /\ IF o.err # "none"
                   THEN /\ result' = o.err
                        /\ pc' = "idle"
                        /\ pos' = 0
                   ELSE /\ result' = "pending"
                        /\ pc' = "scan"
                        /\ pos' = 1
  /\ UNCHANGED <<impl, reg, env, vals, parsed, runs, args, finals, genClean,
                 fileVals>>

\* one scanner.Scan() of parseConfig and the body of the loop
ScanLine ==
  /\ pc = "scan"
  /\ pos <= Len(lines)
  /\ LET st == ApplyLine([vals |-> vals, obs |-> obsKeys], lines[pos])
     IN  /\ vals' = st.vals
         /\ obsKeys' = st.obs
  /\ pos' = pos + 1
  /\ UNCHANGED <<impl, reg, env, file, parsed, pc, calls, runs, call, oldConf,
                 lines, warning, newConf, ioLog, injected, result, args, finals,
                 genClean, total, fileVals>>

\* the values saveConfig prints
RenderedValues == vals

\* the end of parseConfig, the warning, and the new file rendered into
\* newConf
RenderConf ==
  /\ pc = "scan"
  /\ pos > Len(lines)
  /\ warning' = IF DOMAIN obsKeys # {}
                THEN <<AppName, ConfigPath(env)>> ELSE <<>>
  /\ \E order \in Orders(DOMAIN obsKeys) :
       newConf' = ConfigHeader(impl)
                    \o SaveConfig(reg, RenderedValues, obsKeys, order)
  /\ pc' = "commit"
  /\ fileVals' = vals
  /\ UNCHANGED <<impl, reg, env, file, vals, parsed, calls, runs, call,
                 oldConf, lines, pos, obsKeys, ioLog, injected, result, args,
                 finals, genClean, total>>

\* what a failed write may have left: nothing, or the header alone
Partial(im, new) == {<<>>, ConfigHeader(im)}

WriteFaults(im) ==
  IF im = "ReadFile" THEN {"none", "write"}
  ELSE {"none", "seek", "truncate", "write"}

\* ioutil.WriteFile (confy.go), or Seek, Truncate and WriteTo (earlier
\* revision): the outcomes [err, file, log] under the fault
WriteOutcomes(im, f, new, fault) ==
  CASE fault = "none" ->
         {[err |-> "none", file |-> [exists |-> TRUE, data |-> new],
           log |-> IF im = "ReadFile" THEN <<"truncate", "write">>
                   ELSE <<"seek", "truncate", "write">>]}
    [] fault = "seek" -> {[err |-> "seek", file |-> f, log |-> <<"seek">>]}
    [] fault = "truncate" ->
         {[err |-> "truncate", file |-> f, log |-> <<"seek", "truncate">>]}
    [] fault = "write" ->
         (IF im = "ReadFile"
          THEN {[err |-> "write", file |-> f, log |-> <<>>]} ELSE {})
         \cup {[err |-> "write", file |-> [exists |-> TRUE, data |-> d],
                log |-> IF im = "ReadFile" THEN <<"truncate", "write">>
                        ELSE <<"seek", "truncate", "write">>] :
                 d \in Partial(im, new)}

\* flag.Parsed() after a failed write
ParsedAfterFailedWriteTrue == TRUE

ParsedAfterFailedWrite == parsed

\* if !bytes.Equal(oldConf, newConf) { write }
CommitFile ==
  /\ pc = "commit"
  /\ IF oldConf = newConf
     THEN /\ pc' = "final"
          /\ genClean' = (DOMAIN obsKeys = {})
          /\ UNCHANGED <<file, ioLog, injected, result, parsed>>
     ELSE \E fault \in WriteFaults(impl) :
          \E o \in WriteOutcomes(impl, file, newConf, fault) :
            /\ file' = o.file
            /\ ioLog' = ioLog \o o.log
            /\ injected' = fault
            /\ IF o.err = "none"
               THEN /\ pc' = "final"
                    /\ genClean' = (DOMAIN obsKeys = {})
                    /\ UNCHANGED <<result, parsed>>
               ELSE /\ pc' = "idle"
                    /\ result' = o.err
                    /\ parsed' = ParsedAfterFailedWrite
                    /\ genClean' = (genClean /\ o.file = file)
  /\ UNCHANGED <<impl, reg, env, vals, calls, runs, call, oldConf, lines,
                 pos, obsKeys, warning, newConf, args, finals, total, fileVals>>

\* flag.Parse over the arguments, stopping at the first that fails
RECURSIVE ApplyArgs(_, _)
ApplyArgs(vs, as) ==
  IF as = <<>> THEN [ok |-> TRUE, vals |-> vs]
  ELSE LET r == FlagSet(vs, Head(as).name, Head(as).val)
       IN  IF r.ok THEN ApplyArgs(r.vals, Tail(as)) ELSE r

\* the values after flag.Parse had run before the file was read
FinalValuesFileLast(vs, as) ==
  LET r == ApplyArgs(call.vals, as)
  IN  [ok |-> r.ok,
       vals |-> ParseLines([vals |-> r.vals, obs |-> EmptyMap],
                           lines, Len(lines)).vals]

\* the values after flag.Parse() at the end of Parse
FinalValues(vs, as) == ApplyArgs(vs, as)

\* flag.Parse(); flag.CommandLine exits the process on a bad argument.
\* persist = TRUE is the variant that saves the config once more after it.
FlagParseBody(persist) ==
  /\ pc = "final"
  /\ \E as \in ArgVectors :
       LET r == FinalValues(vals, as)
       IN  /\ args' = as
           /\ vals' = r.vals
           /\ file' = IF persist
                      THEN [exists |-> TRUE,
                            data |-> ConfigHeader(impl)
                                       \o SaveConfig(reg, r.vals, EmptyMap, <<>>)]
                      ELSE file
           /\ IF r.ok
              THEN /\ pc' = "idle"
                   /\ result' = "ok"
              ELSE /\ pc' = "exited"
                   /\ result' = "pending"
  /\ parsed' = TRUE
  /\ finals' = finals + 1
  /\ UNCHANGED <<impl, reg, env, calls, runs, call, oldConf, lines, pos,
                 obsKeys, warning, newConf, ioLog, injected, genClean, total,
                 fileVals>>

FlagParsePersisting == FlagParseBody(TRUE)

FlagParse == FlagParseBody(FALSE)

\* the program is started again on the file the last process left
Restart ==
  /\ pc \in {"idle", "exited"}
  /\ calls > 0
  /\ total < MaxCalls
  /\ runs' = runs + 1
  /\ vals' = Defaults(reg)
  /\ parsed' = FALSE
  /\ pc' = "idle"
  /\ calls' = 0
  /\ call' = NoCall
  /\ oldConf' = <<>>
  /\ lines' = <<>>
  /\ pos' = 0
  /\ obsKeys' = EmptyMap
  /\ warning' = <<>>
  /\ newConf' = <<>>
  /\ ioLog' = <<>>
  /\ injected' = "none"
  /\ result' = "none"
  /\ args' = <<>>
  /\ finals' = 0
  /\ fileVals' = Defaults(reg)
  /\ UNCHANGED <<impl, reg, env, file, genClean, total>>

Next ==
  \/ ParseEnter
  \/ ScanLine
  \/ RenderConf
  \/ CommitFile
  \/ FlagParse
  \/ Restart

Spec == Init /\ [][Next]_vars

\* ---------------------------------------------------- vocabulary of the claims
\* the lines of the file the current call read
Lines0 == lines

\* the last call has returned and result is what it returned
Returned == call.active /\ pc = "idle"

Fatal == {"path", "read", "open", "seek", "truncate", "write"}

\* newConf holds what the current call rendered
Rendered ==
  /\ call.active
  /\ ~call.parsed
  /\ \/ pc \in {"commit", "final", "exited"}
     \/ (pc = "idle" /\ result \in {"ok", "seek", "truncate", "write"})

\* the call went through to flag.Parse
Synced == pc \in {"final", "exited"} \/ (Returned /\ result = "ok")

\* a line the format ignores: blank, a comment, or without = and :
IsIgnored(raw) ==
  LET t == TrimSpace(raw)
  IN  \/ t = <<>>
      \/ t[1] = "#"
      \/ \A i \in 1..Len(raw) : raw[i] \notin {"=", ":"}

SepAt(raw) == IndexAnyOf(TrimSpace(raw), {"=", ":"})

\* key and value of an assignment line
KeyOf(raw) == TrimSpace(SubSeq(TrimSpace(raw), 1, SepAt(raw) - 1))
ValOf(raw) ==
  TrimSpace(SubSeq(TrimSpace(raw), SepAt(raw) + 1, Len(TrimSpace(raw))))

TypeOfName(n) == VarType[Flags[Lookup(n)].var]
VarOfName(n) == Flags[Lookup(n)].var

\* an assignment line the registry accepts / rejects
Accepted(raw) ==
  /\ ~IsIgnored(raw)
  /\ KeyOf(raw) \in Names
  /\ ValueSet(TypeOfName(KeyOf(raw)), ValOf(raw)).ok
Failing(raw) == ~IsIgnored(raw) /\ ~Accepted(raw)

\* the names registered for the variable of name n
Aliases(n) == {m \in Names : VarOfName(m) = VarOfName(n)}

\* the file assigns an accepted value to one of the names in S
FileAccepts(S) ==
  \E i \in 1..Len(Lines0) : Accepted(Lines0[i]) /\ KeyOf(Lines0[i]) \in S

\* the value of the last accepted line of the file for a name in S
LastFileValue(S) ==
  LET i == CHOOSE i \in 1..Len(Lines0) :
             /\ Accepted(Lines0[i]) /\ KeyOf(Lines0[i]) \in S
             /\ \A j \in (i + 1)..Len(Lines0) :
                  ~(Accepted(Lines0[j]) /\ KeyOf(Lines0[j]) \in S)
  IN  ValueSet(TypeOfName(KeyOf(Lines0[i])), ValOf(Lines0[i])).val

\* the command line names one of the names in S
OnCommandLine(S) == \E i \in 1..Len(args) : args[i].name \in S

\* the value of the last argument of the command line for a name in S
LastArgValue(S) ==
  LET i == CHOOSE i \in 1..Len(args) :
             /\ args[i].name \in S
             /\ \A j \in (i + 1)..Len(args) : args[j].name \notin S
  IN  ValueSet(TypeOfName(args[i].name), args[i].val).val

\* ------------------------------------------------------------------ claims

\* C1 as stated: after a successful Parse, every option that the file
\* assigns an accepted value and that the command line supplies holds the
\* value the command line gives for that option's own name; flag.Parse ran
\* once, after the last line of the file.
C1_Original ==
  /\ finals <= 1
  /\ (Returned /\ result = "ok") =>
       /\ finals = 1
       /\ pos = Len(Lines0) + 1
       /\ \A n \in Names :
            (FileAccepts({n}) /\ OnCommandLine({n})) =>
              vals[VarOfName(n)] = LastArgValue({n})

\* C1 (amended): after a successful Parse, every option that the file
\* assigns an accepted value and whose variable the command line sets
\* (under the option's name or an alias) holds the value of the last
\* command-line argument naming the option or one of its aliases, not the
\* file's; flag.Parse ran at most once per process, after the last line of
\* the file had been applied.
C1_Precedence ==
  /\ finals <= 1
  /\ (Returned /\ result = "ok") =>
       /\ finals = 1
       /\ pos = Len(Lines0) + 1
       /\ \A n \in Names :
            (OnCommandLine(Aliases(n)) /\ FileAccepts({n})) =>
              vals[VarOfName(n)] = LastArgValue(Aliases(n))

\* a successful Parse whose command line overrode a value the file set
C1_Witness ==
  /\ Returned /\ result = "ok"
  /\ \E n \in Names :
       /\ FileAccepts({n}) /\ OnCommandLine({n})
       /\ LastFileValue(Aliases(n)) # LastArgValue(Aliases(n))
       /\ vals[VarOfName(n)] = LastArgValue(Aliases(n))

\* C3: a Parse call made when the registry is already finalized returns
\* the already-parsed error, does no I/O on the config file, and leaves the
\* file and every option value as they were.
C3_OneShotGuard ==
  (call.active /\ call.parsed) =>
    /\ pc = "idle"
    /\ result = "already"
    /\ ioLog = <<>>
    /\ file = call.file
    /\ vals = call.vals

\* a second call after a successful first one, rejected
C3_Witness ==
  /\ call.active /\ call.parsed /\ call.prev = "ok"
  /\ calls = 2 /\ result = "already" /\ file.exists

\* C8: a Parse call that returns a fatal error has not run flag.Parse, so
\* the registry is not finalized, and the next call in the process is not
\* rejected as already parsed.
C8_FailureKeepsGuard ==
  /\ (Returned /\ result \in Fatal) => (~parsed /\ finals = 0)
  /\ (call.active /\ call.prev \in Fatal) => result # "already"

\* a call that failed on the write, and the retry that went through
C8_Witness ==
  /\ Returned /\ call.prev \in {"seek", "truncate", "write"} /\ result = "ok"

\* C9: the loop body on an ignored line (blank after trimming, a comment,
\* or without = and :) changes no option value, records no obsolete entry,
\* emits no warning, returns no error, and goes on to the next line.
C9_IgnoredLines ==
  [][(pc = "scan" /\ pos <= Len(lines) /\ IsIgnored(lines[pos])) =>
       /\ vals' = vals
       /\ obsKeys' = obsKeys
       /\ warning' = warning
       /\ result' = result
       /\ pc' = "scan"
       /\ pos' = pos + 1]_vars

\* the scanner has passed a comment that looks like an assignment, and a
\* line without separator, of a file a user wrote
C9_Witness ==
  /\ pc = "scan" /\ pos = 3 /\ runs = 1
  /\ lines[1] = <<"#", "c", "=", "1">> /\ IsIgnored(lines[1])
  /\ lines[2] = <<"j", "k">> /\ IsIgnored(lines[2])
  /\ vals = call.vals /\ obsKeys = EmptyMap

\* what parseConfig makes of the file the call read, command line apart
FileOnly == ParseLines([vals |-> call.vals, obs |-> EmptyMap],
                       Lines0, Len(Lines0))

\* C10: the file a call leaves when it reaches flag.Parse is the rendering
\* of the registry as the file alone set it (in some order of the obsolete
\* keys), whatever the command line; flag.Parse leaves the file as it is.
C10_CommandLineNotPersisted ==
  /\ (call.active /\ ~call.parsed /\ pc = "commit") =>
       LET fo == FileOnly
       IN  \E order \in Orders(DOMAIN fo.obs) :
             newConf = ConfigHeader(impl)
                         \o SaveConfig(reg, fo.vals, fo.obs, order)
  /\ (call.active /\ ~call.parsed /\ Synced) =>
       file = [exists |-> TRUE, data |-> newConf]

\* a successful Parse whose command line changed a value the file shows
C10_Witness ==
  /\ Returned /\ result = "ok" /\ args # <<>>
  /\ vals # FileOnly.vals
  /\ file.data = newConf

\* C7: a call that finds no file and meets no I/O failure succeeds; the
\* options keep their defaults until flag.Parse, and the call leaves a file
\* that is exactly the header and one block per deduplicated option with
\* its default value, without a deprecated section and without a warning.
C7_MissingFile ==
  (call.active /\ ~call.file.exists /\ ~call.parsed) =>
    /\ (pc \in {"scan", "commit", "final"}) =>
         (vals = Defaults(reg) /\ obsKeys = EmptyMap)
    /\ Synced =>
         /\ file = [exists |-> TRUE,
                    data |-> ConfigHeader(impl) \o Blocks(reg, Defaults(reg))]
         /\ warning = <<>>
    /\ (Returned /\ injected = "none") => result = "ok"

\* Parse has succeeded on a path that held no file
C7_Witness ==
  /\ Returned /\ ~call.file.exists /\ result = "ok" /\ file.exists

\* the lines of the rendered file, and its deprecated banner
ConfLines == ScanLines(newConf)
BannerLine == <<"#", " ", "d", "e", "p", "r", "e", "c", "a", "t", "e", "d", "!">>
HasBanner(ls) == \E i \in 1..Len(ls) : ls[i] = BannerLine
BannerAt(ls) ==
  IF HasBanner(ls) THEN IndexFrom(ls, {BannerLine}, 1) ELSE Len(ls) + 1

EndsWith(s, t) ==
  Len(s) >= Len(t) /\ SubSeq(s, Len(s) - Len(t) + 1, Len(s)) = t

\* the keys of the lines the registry rejected, and each key's last value
FailKeys ==
  {KeyOf(Lines0[i]) : i \in {j \in 1..Len(Lines0) : Failing(Lines0[j])}}
LastFailValue(k) ==
  LET i == CHOOSE i \in 1..Len(Lines0) :
             /\ Failing(Lines0[i]) /\ KeyOf(Lines0[i]) = k
             /\ \A j \in (i + 1)..Len(Lines0) :
                  ~(Failing(Lines0[j]) /\ KeyOf(Lines0[j]) = k)
  IN  ValOf(Lines0[i])

ExpectedSection(order) ==
  DeprecatedBanner
    \o Concat([i \in 1..Len(order) |->
                 order[i] \o <<"=">> \o LastFailValue(order[i]) \o <<NL>>])

\* C4: rejected lines are no error of the call: it fails only on an I/O
\* failure.  When some line was rejected, the warning names the config path
\* and the rendered file ends with the deprecated section, one key=value
\* line per rejected key with the value of the key's last rejected line;
\* when none was, there is neither warning nor deprecated section.
C4_ObsoleteDetection ==
  /\ (call.active /\ pc = "commit") =>
       LET ls == ConfLines
           fk == FailKeys
       IN  IF fk # {}
           THEN /\ warning = <<AppName, ConfigPath(env)>>
                /\ \E order \in Orders(fk) :
                     EndsWith(newConf, ExpectedSection(order))
                /\ Cardinality({i \in 1..Len(ls) : ls[i] = BannerLine}) = 1
           ELSE /\ warning = <<>>
                /\ ~HasBanner(ls)
  /\ (call.active /\ ~call.parsed /\ Synced) => file.data = newConf
  /\ (Returned /\ injected = "none" /\ ~call.parsed) => result = "ok"

\* Parse has succeeded on a file with two rejected lines for one key
C4_Witness ==
  /\ Returned /\ result = "ok" /\ Rendered
  /\ \E i, j \in 1..Len(Lines0) :
       /\ i < j /\ Failing(Lines0[i]) /\ Failing(Lines0[j])
       /\ KeyOf(Lines0[i]) = KeyOf(Lines0[j])
       /\ ValOf(Lines0[i]) # ValOf(Lines0[j])
  /\ warning # <<>>
  /\ file.data = newConf

Variables == {Flags[i].var : i \in 1..Len(Flags)}
Class(v) == {n \in Names : VarOfName(n) = v}
Longest(n) == \A m \in Aliases(n) : RuneCount(m) <= RuneCount(n)

\* the lines among from..to of ls that assign to name n
AssignLines(ls, n, from, to) ==
  {i \in from..to : HasPrefix(ls[i], n \o <<"=">>)}

\* C5 as stated: for every set of options sharing one value the rendered
\* file has exactly one name=value line, under the longest name; no line
\* assigns to another alias.
C5_Original ==
  (call.active /\ pc = "commit") =>
    LET ls == ConfLines
    IN  \A v \in Variables :
          LET named == {n \in Class(v) : AssignLines(ls, n, 1, Len(ls)) # {}}
          IN  /\ Cardinality(named) = 1
              /\ \A n \in named : Longest(n)

\* C5 (amended): for every set of options sharing one value the option
\* blocks of the rendered file hold exactly one name=value line, under a
\* name of the greatest length in runes; a line assigning to another alias
\* appears only in the deprecated section, and only for an alias the file
\* assigned a rejected value.
C5_DedupLongestName ==
  (call.active /\ pc = "commit") =>
    LET ls == ConfLines
        upto == BannerAt(ls) - 1
    IN  \A v \in Variables :
          LET named == {n \in Class(v) : AssignLines(ls, n, 1, upto) # {}}
          IN  /\ Cardinality(named) = 1
              /\ \A n \in named :
                   /\ Longest(n)
                   /\ Cardinality(AssignLines(ls, n, 1, upto)) = 1
              /\ \A m \in Class(v) \ named :
                   AssignLines(ls, m, upto + 1, Len(ls)) # {}
                     => m \in FailKeys

\* a rendered file whose deprecated section assigns to the alias v
C5_Witness ==
  /\ call.active /\ pc = "commit"
  /\ <<"v">> \in FailKeys
  /\ LET ls == ConfLines
     IN  /\ AssignLines(ls, <<"v">>, BannerAt(ls), Len(ls)) # {}
         /\ AssignLines(ls, <<"v", "b">>, 1, BannerAt(ls) - 1) # {}

HasLine(ls, l) == \E i \in 1..Len(ls) : ls[i] = l

\* C6 as stated: after a successful Parse, an option whose name the file
\* assigns an accepted value, and whose variable the command line leaves
\* alone, holds the value of the file's last accepted line for that name,
\* and the rendered file has the line name=value for it.
C6_Original ==
  (Returned /\ result = "ok") =>
    LET ls == ConfLines
    IN  \A n \in Names :
          (FileAccepts({n}) /\ ~OnCommandLine(Aliases(n))) =>
            /\ vals[VarOfName(n)] = LastFileValue({n})
            /\ HasLine(ls, n \o <<"=">>
                             \o ValueString(TypeOfName(n), LastFileValue({n})))

\* C6 (amended): after a successful Parse, an option whose name the file
\* assigns an accepted value, and whose variable the command line leaves
\* alone, holds the value of the file's last accepted line for the option
\* or one of its aliases, and the file Parse leaves has the line
\* longest-alias=value with that value in the option's String() form.
\* Stated in three steps: when the file has been rendered, the rendering
\* has that line and the option holds that value; the file a successful
\* Parse leaves is the rendering; and flag.Parse changes no option the
\* command line does not name.
C6_RoundTrip ==
  /\ (call.active /\ pc = "commit") =>
       LET ls == ConfLines
       IN  \A n \in Names :
             FileAccepts({n}) =>
               HasLine(ls, Deduped[VarOfName(n)].name \o <<"=">>
                             \o ValueString(TypeOfName(n),
                                            LastFileValue(Aliases(n))))
  /\ (call.active /\ pc = "commit") =>
       \A n \in Names :
         FileAccepts({n}) => vals[VarOfName(n)] = LastFileValue(Aliases(n))
  /\ (Returned /\ result = "ok") =>
       /\ file.data = newConf
       /\ \A n \in Names :
            ~OnCommandLine(Aliases(n)) =>
              vals[VarOfName(n)] = fileVals[VarOfName(n)]

\* Parse has succeeded on a user's file that sets abc with a colon and an
\* octal value, and no argument touched it
C6_Witness ==
  /\ Returned /\ result = "ok" /\ runs = 1
  /\ \E i \in 1..Len(Lines0) :
       /\ Accepted(Lines0[i])
       /\ KeyOf(Lines0[i]) = <<"a", "b", "c">>
       /\ ValOf(Lines0[i]) = <<"0", "7">>
  /\ ~OnCommandLine(Aliases(<<"a", "b", "c">>))
  /\ vals.P = 7

\* C2 as stated: the first Parse of a process that starts on a file this
\* system generated for the same registry, without obsolete entries,
\* renders the file's bytes and writes nothing.
C2_Idempotence ==
  (Rendered /\ call.clean /\ calls = 1) =>
    /\ newConf = oldConf
    /\ \A i \in 1..Len(ioLog) : ioLog[i] \notin {"truncate", "write"}

\* the same, for the registry whose values carry no surrounding white space
C2_IdempotencePlain == (reg = "plain") => C2_Idempotence

====
